---- MODULE Spec2Model ----
(***************************************************************************)
(* Text watermark placement (src/lib/style/text/index.js).                 *)
(*                                                                         *)
(* atPos builds a placement function from two coordinate strategies and    *)
(* the styling arguments; lowerRight, lowerLeft, upperRight, upperLeft and *)
(* center call atPos with fixed strategies.  A placement function saves    *)
(* the 2D context, sets font / globalAlpha / textBaseline, measures the    *)
(* text, asks the strategies for the position, optionally fills a          *)
(* background rectangle, fills the text, restores the context and returns  *)
(* the surface.                                                            *)
(*                                                                         *)
(* Conventions of the model                                                *)
(*  - a JavaScript number is a record [t, v]: Num(n), NaN or Undefined;    *)
(*  - a font string is a sequence of one-character strings, so that        *)
(*    split('px') and parseInt are computed character by character;        *)
(*    NoFont stands for an argument that was not passed (undefined);       *)
(*  - colours and the text are TLA+ strings; Omitted stands for an         *)
(*    argument that was not passed and "" for the empty string;            *)
(*  - alpha is counted in hundredths (AlphaOne = 1.0);                     *)
(*  - surface sizes, metric widths and font sizes are even numbers so that *)
(*    W / 2 and H / 2 (lines 154-155) are integers;                        *)
(*  - an exception raised by a placement call ends the caller's chain of   *)
(*    placements: the state it leaves is observed, nothing follows it;     *)
(*  - record constructors list their fields in the order in which the      *)
(*    names first occur in the module, the order TLC keeps records in.     *)
(***************************************************************************)
EXTENDS Integers, Sequences, FiniteSets, TLC

VARIABLES
  size,      \* size[s]: width and height of surface s
  ctx,       \* ctx[s]: current drawing state of the 2D context of s
  stack,     \* stack[s]: states pushed by context.save(), oldest first
  draws,     \* draws[s]: the draw operations issued on s, in order
  returned,  \* returned[s]: numbers of the calls on s that returned normally
  calls,     \* number of placement calls made so far
  place,     \* the placement function most recently exported (a closure)
  last       \* observation of the latest call of `place`

vars == <<size, ctx, stack, draws, returned, calls, place, last>>

\* Cap on the total number of placement calls.
MaxCalls == 2

----------------------------------------------------------------------------
(* JavaScript values *)

Num(n) == [t |-> "num", v |-> n]
NaN == [t |-> "nan", v |-> 0]
Undefined == [t |-> "undef", v |-> 0]

\* ToBoolean of a number-or-undefined value, as used by `||`
Truthy(a) == a.t = "num" /\ a.v # 0

\* a - b and a + b on JavaScript numbers (undefined converts to NaN)
Minus(a, b) == IF a.t = "num" /\ b.t = "num" THEN Num(a.v - b.v) ELSE NaN
Plus(a, b) == IF a.t = "num" /\ b.t = "num" THEN Num(a.v + b.v) ELSE NaN
Half(a) == IF a.t = "num" THEN Num(a.v \div 2) ELSE NaN

Omitted == "<omitted>"
NoFont == <<"<omitted>">>

\* ToBoolean of a string argument / of the font argument
StrTruthy(s) == s # "" /\ s # Omitted
FontTruthy(f) == f # << >> /\ f # NoFont

Digits == {"0", "1", "2", "3", "4", "5", "6", "7", "8", "9"}

DigitVal(c) == CASE c = "0" -> 0 [] c = "1" -> 1 [] c = "2" -> 2 [] c = "3" -> 3
                 [] c = "4" -> 4 [] c = "5" -> 5 [] c = "6" -> 6 [] c = "7" -> 7
                 [] c = "8" -> 8 [] c = "9" -> 9

\* font.split('px')[0]: the part of the string before the first "px",
\* the whole string when it holds no "px"
RECURSIVE SplitPx0(_)
SplitPx0(f) ==
  IF Len(f) = 0 THEN <<>>
  ELSE IF Len(f) >= 2 /\ f[1] = "p" /\ f[2] = "x" THEN <<>>
  ELSE <<f[1]>> \o SplitPx0(Tail(f))

RECURSIVE SkipSpaces(_)
SkipSpaces(s) == IF Len(s) > 0 /\ s[1] = " " THEN SkipSpaces(Tail(s)) ELSE s

RECURSIVE LeadingDigits(_)
LeadingDigits(s) ==
  IF Len(s) > 0 /\ s[1] \in Digits THEN <<s[1]>> \o LeadingDigits(Tail(s)) ELSE <<>>

RECURSIVE DigitsValue(_, _)
DigitsValue(ds, acc) ==
  IF Len(ds) = 0 THEN acc ELSE DigitsValue(Tail(ds), 10 * acc + DigitVal(ds[1]))

\* a parse that takes the whole string or nothing, as Number(s) does
ParseWholeNumber(s) ==
  IF Len(s) > 0 /\ Len(LeadingDigits(s)) = Len(s) THEN Num(DigitsValue(s, 0)) ELSE NaN

\* parseInt(s): leading white space skipped, then the longest run of
\* decimal digits; NaN when there is none (no font of the model carries a
\* sign or a radix prefix)
ParseInt(s) ==
  LET ds == LeadingDigits(SkipSpaces(s))
  IN IF Len(ds) = 0 THEN NaN ELSE Num(DigitsValue(ds, 0))

\* parseInt(font.split('px')[0])
FontSize(font) == ParseInt(SplitPx0(font))

----------------------------------------------------------------------------
(* The drawing context *)

\* context.save(): push the current drawing state
Save(c, st) == Append(st, c)

\* a restore that pops the stack and leaves the current state as it is
KeptCtx(c, st) == c

\* context.restore(): pop the state pushed last and make it current;
\* nothing happens on an empty stack
RestoredCtx(c, st) == IF Len(st) = 0 THEN c ELSE st[Len(st)]
RestoredStack(st) == IF Len(st) = 0 THEN st ELSE SubSeq(st, 1, Len(st) - 1)

\* context.font = font: the context keeps the value when it accepts it as
\* a CSS font and ignores the assignment otherwise (accepted is the
\* context's decision)
SetFont(c, font, accepted) == IF accepted /\ font # NoFont THEN [c EXCEPT !.font = font] ELSE c

\* context.fillRect(x, y, w, h) under the current drawing state
FillRectOp(c, x, y, w, h) ==
  [x |-> x, y |-> y, w |-> w, h |-> h, op |-> "fillRect", text |-> "",
   fillStyle |-> c.fillStyle, globalAlpha |-> c.globalAlpha,
   textAlign |-> c.textAlign, textBaseline |-> c.textBaseline]

\* context.fillText(text, x, y) under the current drawing state
FillTextOp(c, text, x, y) ==
  [x |-> x, y |-> y, w |-> Undefined, h |-> Undefined, op |-> "fillText", text |-> text,
   fillStyle |-> c.fillStyle, globalAlpha |-> c.globalAlpha,
   textAlign |-> c.textAlign, textBaseline |-> c.textBaseline]

----------------------------------------------------------------------------
(* Coordinate strategies.  A strategy is the record [fn, y, font]: the     *)
(* arrow function and the wrapper arguments it closes over.  Applying one  *)
(* yields [threw, val, ctx]: whether it raised, the coordinate, and the    *)
(* context as the strategy left it.                                        *)

Strategy(fn, y, font) == [font |-> font, y |-> y, fn |-> fn]

\* (target, metrics) => target.width - (metrics.width + 10)
RightMarginX(target, metrics) ==
  Minus(Num(target.width), Plus(metrics.width, Num(10)))

\* () => 10
LeftMarginX == Num(10)

\* a bottom margin that leaves the font size out
BottomYNoFontSize(y, font, target) ==
  IF Truthy(y) THEN y ELSE Minus(Num(target.height), Num(10))

\* target => y || (target.height - parseInt(font.split('px')[0]) - 10)
BottomY(y, font, target) ==
  IF Truthy(y) THEN y
  ELSE Minus(Minus(Num(target.height), FontSize(font)), Num(10))

\* () => y || 20
TopY(y) == IF Truthy(y) THEN y ELSE Num(20)

\* (target, metrics, ctx) => {ctx.textAlign = 'center'; return target.width / 2;}
CenterX(target, c) ==
  [ctx |-> [c EXCEPT !.textAlign = "center"], threw |-> FALSE,
   val |-> Half(Num(target.width))]

\* a y strategy of center that honours y as the corner wrappers do
CenterYOverride(y, target, c) ==
  [ctx |-> [c EXCEPT !.textBaseline = "middle"], threw |-> FALSE,
   val |-> IF Truthy(y) THEN y ELSE Half(Num(target.height))]

\* (target, metrics, ctx) => {ctx.textBaseline = 'middle'; return target.height / 2;}
CenterY(y, target, c) ==
  [ctx |-> [c EXCEPT !.textBaseline = "middle"], threw |-> FALSE,
   val |-> Half(Num(target.height))]

\* The coordinate a caller's own strategy returns, when it returns
FixedCoord == Num(16)

\* xFn(target, metrics, context) / yFn(target, metrics, context)
Apply(s, target, metrics, c) ==
  CASE s.fn = "rightMargin" -> [ctx |-> c, threw |-> FALSE, val |-> RightMarginX(target, metrics)]
    [] s.fn = "leftMargin"  -> [ctx |-> c, threw |-> FALSE, val |-> LeftMarginX]
    [] s.fn = "bottom"      -> [ctx |-> c, threw |-> FALSE, val |-> BottomY(s.y, s.font, target)]
    [] s.fn = "top"         -> [ctx |-> c, threw |-> FALSE, val |-> TopY(s.y)]
    [] s.fn = "centerX"     -> CenterX(target, c)
    [] s.fn = "centerY"     -> CenterY(s.y, target, c)
    [] s.fn = "fixed"       -> [ctx |-> c, threw |-> FALSE, val |-> FixedCoord]
    [] s.fn = "throws"      -> [ctx |-> c, threw |-> TRUE, val |-> Undefined]

----------------------------------------------------------------------------
(* atPos and the placement function it returns *)

\* 1.0 in hundredths
AlphaOne == 100

\* a default that applies to a missing alpha only
AlphaUnlessMissing(alpha) == IF alpha = Undefined THEN Num(AlphaOne) ELSE alpha

\* alpha || (alpha = 1.0)
AlphaOrOne(alpha) == IF Truthy(alpha) THEN alpha ELSE Num(AlphaOne)

\* atPos(xFn, yFn, text, font, fillStyle, alpha, textBgColor): the closure
\* holds the arguments, alpha after its defaulting
atPos(xFn, yFn, text, font, fillStyle, alpha, textBgColor) ==
  [font |-> font, text |-> text, fillStyle |-> fillStyle, alpha |-> AlphaOrOne(alpha),
   xFn |-> xFn, yFn |-> yFn, textBgColor |-> textBgColor]

\* padding of the background rectangle
fontBgPadding == 5

\* a background filled without context.fillStyle = textBgColor
BackgroundInCurrentColour(fn, c, textX, textY, metrics) ==
  IF StrTruthy(fn.textBgColor) /\ FontTruthy(fn.font)
  THEN << FillRectOp(c,
                     Minus(textX, Num(fontBgPadding)),
                     Minus(textY, Num(fontBgPadding)),
                     Plus(metrics.width, Num(fontBgPadding * 2)),
                     Plus(FontSize(fn.font), Num(fontBgPadding * 2))) >>
  ELSE << >>

\* the background rectangle of lines 28-39, as a sequence of draw operations
Background(fn, c, textX, textY, metrics) ==
  IF StrTruthy(fn.textBgColor) /\ FontTruthy(fn.font)
  THEN << FillRectOp([c EXCEPT !.fillStyle = fn.textBgColor],
                     Minus(textX, Num(fontBgPadding)),
                     Minus(textY, Num(fontBgPadding)),
                     Plus(metrics.width, Num(fontBgPadding * 2)),
                     Plus(FontSize(fn.font), Num(fontBgPadding * 2))) >>
  ELSE << >>

\* the context after lines 28-41
Painted(fn, c) == [c EXCEPT !.fillStyle = fn.fillStyle]

\* a placement function that ends without a return statement
ReturnedNothing(target) == ""

\* return target
Returned(target) == target

\* An exit by exception: the rest of the body, context.restore() included,
\* is not run
Raised(c, st) ==
  [ctx |-> c, stack |-> st, textX |-> Undefined, textY |-> Undefined, outcome |-> "threw",
   ret |-> "", ops |-> << >>]

\* The normal exit: context.restore(); return target
Completed(target, c, st, ops, textX, textY) ==
  [ctx |-> RestoredCtx(c, st), stack |-> RestoredStack(st),
   textX |-> textX, textY |-> textY, outcome |-> "returned",
   ret |-> Returned(target), ops |-> ops]

\* function (target) {...}: one call of the placement function fn on the
\* surface target of size sz, whose context is c0 with save stack st0;
\* mw is the width measureText reports
Place(fn, target, sz, c0, st0, mw, accepted) ==
  LET st1 == Save(c0, st0)
      c1 == [SetFont(c0, fn.font, accepted) EXCEPT !.globalAlpha = fn.alpha,
                                                   !.textBaseline = "top"]
      metrics == [width |-> Num(mw)]
      xr == Apply(fn.xFn, sz, metrics, c1)
      yr == Apply(fn.yFn, sz, metrics, xr.ctx)
      c2 == yr.ctx
      bg == Background(fn, c2, xr.val, yr.val, metrics)
      c3 == Painted(fn, c2)
      ops == bg \o << FillTextOp(c3, fn.text, xr.val, yr.val) >>
  IN IF xr.threw THEN Raised(xr.ctx, st1)
     ELSE IF yr.threw THEN Raised(yr.ctx, st1)
     ELSE IF fn.font = NoFont THEN Raised(c2, st1)   \* font.split on undefined
     ELSE Completed(target, c3, st1, ops, xr.val, yr.val)

----------------------------------------------------------------------------
(* The five wrappers *)

DefaultFont == <<"2", "8", "p", "x", " ", "s", "e", "r", "i", "f">>

\* font = '28px serif' in the parameter list
FontOrDefault(font) == IF font = NoFont THEN DefaultFont ELSE font

lowerRight(text, font, fillStyle, alpha, textBgColor, y) ==
  atPos(Strategy("rightMargin", y, FontOrDefault(font)),
        Strategy("bottom", y, FontOrDefault(font)),
        text, FontOrDefault(font), fillStyle, alpha, textBgColor)

lowerLeft(text, font, fillStyle, alpha, textBgColor, y) ==
  atPos(Strategy("leftMargin", y, FontOrDefault(font)),
        Strategy("bottom", y, FontOrDefault(font)),
        text, FontOrDefault(font), fillStyle, alpha, textBgColor)

upperRight(text, font, fillStyle, alpha, textBgColor, y) ==
  atPos(Strategy("rightMargin", y, FontOrDefault(font)),
        Strategy("top", y, FontOrDefault(font)),
        text, FontOrDefault(font), fillStyle, alpha, textBgColor)

upperLeft(text, font, fillStyle, alpha, textBgColor, y) ==
  atPos(Strategy("leftMargin", y, FontOrDefault(font)),
        Strategy("top", y, FontOrDefault(font)),
        text, FontOrDefault(font), fillStyle, alpha, textBgColor)

center(text, font, fillStyle, alpha, textBgColor, y) ==
  atPos(Strategy("centerX", y, font), Strategy("centerY", y, font),
        text, font, fillStyle, alpha, textBgColor)

----------------------------------------------------------------------------
(* Inputs *)

Surfaces == {"s1"}

\* surface sizes the caller may use
Sizes == {[width |-> 200, height |-> 100], [width |-> 300, height |-> 150]}

\* widths measureText may report
MetricWidths == {40, 60}

Font20 == <<"2", "0", "p", "x", " ", "s">>     \* "20px s"
FontPt == <<"1", "2", "p", "t">>               \* "12pt": no "px"
FontSerif == <<"s", "e", "r", "i", "f">>       \* "serif": no "px"
FontEmpty == << >>                             \* "": the empty string

Args(text, font, fillStyle, alpha, textBgColor, y) ==
  [font |-> font, y |-> y, text |-> text, fillStyle |-> fillStyle,
   alpha |-> alpha, textBgColor |-> textBgColor]

FontArgs == {NoFont, Font20, FontPt, FontSerif, FontEmpty}
AlphaArgs == {Undefined, Num(0), Num(50)}
BgArgs == {Omitted, "", "black"}
YArgs == {Undefined, Num(0), Num(7)}
CustomFns == {"fixed", "throws"}

\* Argument lists of the five wrappers: every font with every background,
\* every y with the well-formed fonts, every alpha with and without a
\* background
WrapperArgs ==
  {Args("wm", f, "white", Undefined, bg, Undefined) : f \in FontArgs, bg \in BgArgs}
  \cup {Args("wm", f, "white", Undefined, bg, y) :
          f \in {NoFont, Font20}, bg \in {Omitted, "black"}, y \in YArgs}
  \cup {Args("wm", Font20, "white", a, bg, Undefined) :
          a \in AlphaArgs, bg \in {Omitted, "black"}}

\* Argument lists of atPos (y is not a parameter of atPos)
AtPosArgs == {a \in WrapperArgs : a.y = Undefined}

\* the drawing state of a fresh 2D context
DefaultCtx ==
  [font |-> <<"1", "0", "p", "x", " ", "s">>, fillStyle |-> "#000",
   globalAlpha |-> Num(AlphaOne), textAlign |-> "start", textBaseline |-> "alphabetic"]

\* drawing states the caller's own code may have set before a placement
CallerCtxs ==
  { DefaultCtx,
    [font |-> Font20, fillStyle |-> "red", globalAlpha |-> Num(30),
     textAlign |-> "center", textBaseline |-> "middle"] }

NoFn == atPos(Strategy("none", Undefined, NoFont), Strategy("none", Undefined, NoFont),
              "", NoFont, "", Undefined, "")

NoPlace == [fn |-> NoFn, by |-> "none", args |-> Args("", NoFont, "", Undefined, "", Undefined)]

NoCall ==
  [target |-> "", textX |-> Undefined, textY |-> Undefined, outcome |-> "", ret |-> "",
   ops |-> << >>, mw |-> 0, made |-> FALSE, no |-> 0,
   nth |-> 0, pre |-> DefaultCtx, preDepth |-> 0, post |-> DefaultCtx, postDepth |-> 0]

----------------------------------------------------------------------------
(* State machine *)

Init ==
  /\ size \in [Surfaces -> Sizes]
  /\ ctx = [s \in Surfaces |-> DefaultCtx]
  /\ stack \in [Surfaces -> {<< >>, <<DefaultCtx>>}]
  /\ draws = [s \in Surfaces |-> << >>]
  /\ returned = [s \in Surfaces |-> << >>]
  /\ calls = 0
  /\ place = NoPlace
  /\ last = NoCall

\* An exception raised by a placement call propagates out of the caller's
\* chain of placements: nothing more is done with the surface
Aborted == last.outcome = "threw"

\* The caller asks for a placement function when it holds none or has used
\* the one it holds
CanExport ==
  /\ ~Aborted
  /\ calls < MaxCalls
  /\ (place.by = "none" \/ last.made)

\* the export `by`, called with the arguments a, has returned fn
Exported(by, a, fn) ==
  /\ place' = [fn |-> fn, by |-> by, args |-> a]
  /\ last' = NoCall

AtPos ==
  /\ CanExport
  /\ \E xf \in CustomFns, yf \in CustomFns, a \in AtPosArgs :
       Exported("atPos", a,
                atPos(Strategy(xf, Undefined, NoFont), Strategy(yf, Undefined, NoFont),
                      a.text, a.font, a.fillStyle, a.alpha, a.textBgColor))
  /\ UNCHANGED <<size, ctx, stack, draws, returned, calls>>

LowerRight ==
  /\ CanExport
  /\ \E a \in WrapperArgs :
       Exported("lowerRight", a,
                lowerRight(a.text, a.font, a.fillStyle, a.alpha, a.textBgColor, a.y))
  /\ UNCHANGED <<size, ctx, stack, draws, returned, calls>>

LowerLeft ==
  /\ CanExport
  /\ \E a \in WrapperArgs :
       Exported("lowerLeft", a,
                lowerLeft(a.text, a.font, a.fillStyle, a.alpha, a.textBgColor, a.y))
  /\ UNCHANGED <<size, ctx, stack, draws, returned, calls>>

UpperRight ==
  /\ CanExport
  /\ \E a \in WrapperArgs :
       Exported("upperRight", a,
                upperRight(a.text, a.font, a.fillStyle, a.alpha, a.textBgColor, a.y))
  /\ UNCHANGED <<size, ctx, stack, draws, returned, calls>>

UpperLeft ==
  /\ CanExport
  /\ \E a \in WrapperArgs :
       Exported("upperLeft", a,
                upperLeft(a.text, a.font, a.fillStyle, a.alpha, a.textBgColor, a.y))
  /\ UNCHANGED <<size, ctx, stack, draws, returned, calls>>

Center ==
  /\ CanExport
  /\ \E a \in WrapperArgs :
       Exported("center", a,
                center(a.text, a.font, a.fillStyle, a.alpha, a.textBgColor, a.y))
  /\ UNCHANGED <<size, ctx, stack, draws, returned, calls>>

\* the caller's own code sets the drawing state of a surface's context
Configure(s) ==
  /\ ~Aborted
  /\ \E c \in CallerCtxs : c # ctx[s] /\ ctx' = [ctx EXCEPT ![s] = c]
  /\ UNCHANGED <<size, stack, draws, returned, calls, place, last>>

\* the draw operations of call number n, as the surface records them
Tagged(ops, n) == [i \in 1..Len(ops) |-> [op |-> ops[i].op, call |-> n]]

\* place(target) for target = s
Call(s) ==
  /\ ~Aborted
  /\ place.by # "none"
  /\ calls < MaxCalls
  /\ \E mw \in MetricWidths, accepted \in BOOLEAN :
       LET r == Place(place.fn, s, size[s], ctx[s], stack[s], mw, accepted)
       IN /\ ctx' = [ctx EXCEPT ![s] = r.ctx]
          /\ stack' = [stack EXCEPT ![s] = r.stack]
          /\ draws' = [draws EXCEPT ![s] = @ \o Tagged(r.ops, calls + 1)]
          /\ returned' = [returned EXCEPT ![s] =
                            IF r.outcome = "returned" THEN Append(@, calls + 1) ELSE @]
          /\ calls' = calls + 1
          /\ last' = [target |-> s, textX |-> r.textX, textY |-> r.textY,
                      outcome |-> r.outcome, ret |-> r.ret,
                      ops |-> r.ops, mw |-> mw,
                      made |-> TRUE, no |-> calls + 1,
                      nth |-> last.nth + 1, pre |-> ctx[s], preDepth |-> Len(stack[s]),
                      post |-> r.ctx, postDepth |-> Len(r.stack)]
  /\ UNCHANGED <<size, place>>

Next ==
  \/ AtPos
  \/ LowerRight
  \/ LowerLeft
  \/ UpperRight
  \/ UpperLeft
  \/ Center
  \/ \E s \in Surfaces : Configure(s)
  \/ \E s \in Surfaces : Call(s)

Spec == Init /\ [][Next]_vars

----------------------------------------------------------------------------
(* Vocabulary of the properties *)

Corners == {"lowerRight", "lowerLeft", "upperRight", "upperLeft"}
RightCorners == {"lowerRight", "upperRight"}
LowerCorners == {"lowerRight", "lowerLeft"}
Wrappers == Corners \cup {"center"}

\* the latest call of `place` was made / returned normally / raised
Made == last.made
Ret == last.made /\ last.outcome = "returned"
Threw == last.made /\ last.outcome = "threw"

\* the strategies of `place` are not a caller's strategy that raises
NoThrowingStrategy == place.fn.xFn.fn # "throws" /\ place.fn.yFn.fn # "throws"

\* the font the placement function works with, and the surface of the call
TheFont == place.fn.font
W == size[last.target].width
H == size[last.target].height

\* the fillText and fillRect operations of the latest call
TextOps == SelectSeq(last.ops, LAMBDA o : o.op = "fillText")
RectOps == SelectSeq(last.ops, LAMBDA o : o.op = "fillRect")
TheText == TextOps[1]
TheRect == RectOps[1]

\* fonts of the form "<n>px ...", with their n; fonts without "px"
WellFormed == {Font20, DefaultFont}
PxOf(font) == IF font = Font20 THEN 20 ELSE 28
NoPxFonts == {FontPt, FontSerif, FontEmpty}

\* Where the canvas puts a text of width mw and height n that fillText draws
\* at (x, y): its left edge under textAlign, its top edge under textBaseline
\* (left-to-right text, so "start" is "left")
TextLeft(o, mw) ==
  CASE o.textAlign \in {"start", "left"} -> o.x
    [] o.textAlign = "center" -> Minus(o.x, Num(mw \div 2))
    [] o.textAlign \in {"end", "right"} -> Minus(o.x, Num(mw))
TextTop(o, n) ==
  CASE o.textBaseline = "top" -> o.y
    [] o.textBaseline = "middle" -> Minus(o.y, Num(n \div 2))
    [] OTHER -> Minus(o.y, Num(n))

----------------------------------------------------------------------------
(* C1 *)

\* C1: after a placement call that returns normally, the context's save
\* stack is as deep as before the call and font, globalAlpha, textAlign,
\* textBaseline and fillStyle have their values from before the call.
C1_StateRestored ==
  Ret => /\ last.postDepth = last.preDepth
         /\ last.post.font = last.pre.font
         /\ last.post.globalAlpha = last.pre.globalAlpha
         /\ last.post.textAlign = last.pre.textAlign
         /\ last.post.textBaseline = last.pre.textBaseline
         /\ last.post.fillStyle = last.pre.fillStyle

\* a second placement, by center, returns on a context that holds a saved
\* state and whose textAlign and textBaseline center changed while it ran
C1_Witness ==
  /\ Ret /\ place.by = "center" /\ calls = 2
  /\ last.preDepth = 1
  /\ last.pre.textAlign = "start" /\ TheText.textAlign = "center"
  /\ last.pre.textBaseline = "alphabetic" /\ TheText.textBaseline = "middle"

----------------------------------------------------------------------------
(* C2 *)

\* C2: a corner wrapper draws the text with its right edge at W - 10
\* (lowerRight, upperRight) or its left edge at 10 (lowerLeft, upperLeft),
\* whatever the context's settings were before the call.
C2_CornerEdges ==
  (Ret /\ place.by \in Corners) =>
    IF place.by \in RightCorners
    THEN Plus(TextLeft(TheText, last.mw), Num(last.mw)) = Num(W - 10)
    ELSE TextLeft(TheText, last.mw) = Num(10)

----------------------------------------------------------------------------
(* C3 *)

\* C3 as stated: with a font "<n>px ...", a corner wrapper draws at textY = y
\* for every numeric y given, 0 included, and without y at H - n - 10 (lower
\* wrappers) or 20 (upper wrappers).
C3_YVerbatim ==
  (Ret /\ place.by \in Corners /\ TheFont \in WellFormed) =>
    TheText.y = IF place.args.y # Undefined THEN place.args.y
                ELSE IF place.by \in LowerCorners THEN Num(H - PxOf(TheFont) - 10)
                ELSE Num(20)

\* C3 amended: with a font "<n>px ...", a corner wrapper draws at textY = y
\* for every non-zero y given; without y, or with y = 0, it draws at
\* H - n - 10 (lower wrappers) or 20 (upper wrappers).
C3_YTruthy ==
  (Ret /\ place.by \in Corners /\ TheFont \in WellFormed) =>
    TheText.y = IF place.args.y \notin {Undefined, Num(0)} THEN place.args.y
                ELSE IF place.by \in LowerCorners THEN Num(H - PxOf(TheFont) - 10)
                ELSE Num(20)

\* lowerRight was given y = 0 and a 20px font
C3_Witness ==
  /\ Ret /\ place.by = "lowerRight"
  /\ place.args.y = Num(0) /\ place.args.font = Font20

----------------------------------------------------------------------------
(* C4 *)

\* what the latest call would have drawn had center been given no y
DrawnWithoutY ==
  Place(center(place.args.text, place.args.font, place.args.fillStyle,
               place.args.alpha, place.args.textBgColor, Undefined),
        last.target, size[last.target], last.pre, << >>, last.mw, TRUE).ops

----------------------------------------------------------------------------
(* C5 *)

\* the number parseInt gets from the part of the font before "px"
Parsed(font) ==
  CASE font \in WellFormed -> Num(PxOf(font))
    [] font = FontPt -> Num(12)
    [] OTHER -> NaN

----------------------------------------------------------------------------
(* C6 *)

\* the opacity the arguments of `place` ask for: 1.0 for a missing alpha
\* and for 0, the given number otherwise
AskedAlpha ==
  IF place.args.alpha \in {Undefined, Num(0)} THEN Num(100) ELSE place.args.alpha

\* C6: the placement function holds, from its creation on, globalAlpha 1.0
\* when alpha was omitted or 0 and the given alpha otherwise, and every
\* rectangle fill and text draw of every call of it is made under that
\* globalAlpha.
C6_Alpha ==
  /\ place.by # "none" => place.fn.alpha = AskedAlpha
  /\ Made => \A i \in 1..Len(last.ops) : last.ops[i].globalAlpha = AskedAlpha

\* the second call of a placement function created with alpha = 0 filled a
\* rectangle and drew the text
C6_Witness ==
  /\ Ret /\ last.nth = 2 /\ place.args.alpha = Num(0)
  /\ Len(last.ops) = 2 /\ last.pre.globalAlpha = Num(30)

----------------------------------------------------------------------------
(* C7 *)

\* the numbers of the calls whose text was drawn on s, in drawing order
TextCalls(s) ==
  LET t == SelectSeq(draws[s], LAMBDA d : d.op = "fillText")
  IN [i \in 1..Len(t) |-> t[i].call]

\* a call that returns normally returns the surface it was given, and the
\* text draws on a surface are those of the calls that returned, in call order
C7_State ==
  /\ Ret => last.ret = last.target
  /\ \A s \in Surfaces : TextCalls(s) = returned[s]

\* C7: every placement call that returns normally returns the surface it
\* was given, no step changes a surface's width or height, and k placements
\* chained on a surface make k text draws on it in call order.
C7_ReturnsTarget == [](C7_State) /\ [][size' = size]_vars

\* two placements were chained on one surface, the first with a background
C7_Witness ==
  /\ Ret /\ calls = 2 /\ returned[last.target] = <<1, 2>>
  /\ Len(draws[last.target]) >= 3

----------------------------------------------------------------------------
(* C8 *)

----------------------------------------------------------------------------
(* C9 *)

\* C9: when a placement call raises, the context's save stack is as deep
\* after the call as before it and font, globalAlpha and textBaseline have
\* their values from before the call.
C9_RestoredOnThrow ==
  Threw => /\ last.postDepth = last.preDepth
           /\ last.post.font = last.pre.font
           /\ last.post.globalAlpha = last.pre.globalAlpha
           /\ last.post.textBaseline = last.pre.textBaseline

----------------------------------------------------------------------------
(* C10 *)

\* C10: when a wrapper fills a background rectangle with a font "<n>px ...",
\* the rectangle is the box of the text as drawn (metrics.width wide, n
\* high, placed by the textAlign and textBaseline of the text draw) grown by
\* 5 on each of the four sides.
C10_PlateCoversText ==
  (Ret /\ place.by \in Wrappers /\ TheFont \in WellFormed /\ Len(RectOps) = 1) =>
    /\ TheRect.x = Minus(TextLeft(TheText, last.mw), Num(5))
    /\ TheRect.y = Minus(TextTop(TheText, PxOf(TheFont)), Num(5))
    /\ TheRect.w = Num(last.mw + 10)
    /\ TheRect.h = Num(PxOf(TheFont) + 10)

====
